---- MODULE Spec2Model ----
(***************************************************************************)
(* FocusFlow timer: the timer store (phase state machine), the countdown   *)
(* scheduler hook that drives it, and the soundscape hook.                 *)
(*                                                                         *)
(* Time.  The code only ever uses differences of timestamps                *)
(* (targetEnd - Date.now(), setTimeout delays).  The model measures every  *)
(* stored timestamp from the present instant: Date.now() is the origin     *)
(* (DateNow), and the passage of d milliseconds (Advance) moves the origin,*)
(* i.e. subtracts d from every stored timestamp.  A deadline that has      *)
(* passed is a negative number.                                            *)
(*                                                                         *)
(* Scheduling.  Every action is one browser task: a user event handler, a  *)
(* timer callback, or a re-render.  A store update made in a task is       *)
(* rendered, and the scheduler's effect re-run (cleanup, then body), at    *)
(* the end of that task, before any other task runs (Flush).               *)
(***************************************************************************)
EXTENDS Integers, Sequences, FiniteSets, TLC

VARIABLES
  store,            \* the zustand timer store (TimerState, data fields)
  engine,           \* useTimerEngine: refs, the effect's last dependencies
  timers,           \* the browser's pending window.setTimeout callbacks
  sound,            \* useSoundscape: refs, audio objects, media preferences
  obs               \* observer: what the last task did (no program state)

vars == <<store, engine, timers, sound, obs>>

----------------------------------------------------------------------------
(* Bounds of the model                                                     *)

\* largest sessionsBeforeLongBreak the sessions input is set to
MaxSessions == 2

\* values typed into the duration inputs (minutes)
FocusChoices == {10}
\* what localStorage holds when the page loads: nothing, or this state
StoredConfig ==
  [focusMinutes |-> 6, shortBreakMinutes |-> 1, longBreakMinutes |-> 5,
   sessionsBeforeLongBreak |-> 2, autoStart |-> TRUE]
StoredPresets ==
  <<[id |-> 1, focusMinutes |-> 5, shortBreakMinutes |-> 10,
     longBreakMinutes |-> 1, sessionsBeforeLongBreak |-> 1,
     autoStart |-> FALSE]>>
\* ids asked of loadPreset
PresetIds == {1, 2}
\* clock advances between two tasks (ms)
Delays == {299970, 300000}
\* most calls awaiting resume() at one time
MaxPending == 2
\* most alarms sounding at one time
MaxMasters == 1
\* positions of the ambient volume slider (percent)
Volumes == {40, 80}
\* the clock advance between two tasks of the page with sound (ms)
SoundDelay == 300000

----------------------------------------------------------------------------
(* Values                                                                  *)

Null == <<>>
Some(x) == <<x>>
Val(o) == o[1]

\* Date.now(): the present instant is the origin of the time axis
DateNow == 0

MINUTE == 60000

Phases == {"focus", "shortBreak", "longBreak"}

initialConfig ==
  [focusMinutes |-> 25, shortBreakMinutes |-> 5, longBreakMinutes |-> 15,
   sessionsBeforeLongBreak |-> 4, autoStart |-> FALSE]

durationForPhase(phase, config) ==
  CASE phase = "focus" -> config.focusMinutes * MINUTE
    [] phase = "shortBreak" -> config.shortBreakMinutes * MINUTE
    [] phase = "longBreak" -> config.longBreakMinutes * MINUTE
    [] OTHER -> config.focusMinutes * MINUTE

----------------------------------------------------------------------------
(* The timer store: each operation maps the store state s to the next one  *)

initialStore ==
  [phase |-> "focus",
   status |-> "idle",
   remainingMs |-> durationForPhase("focus", initialConfig),
   targetEnd |-> Null,
   completedFocusCount |-> 0,
   config |-> initialConfig,
   presets |-> <<>>,
   selectedPresetId |-> Null]

\* (a start that carries the focus count over)
startKeepsCount(s) ==
  LET remainingMs == durationForPhase("focus", s.config)
  IN  [s EXCEPT !.phase = "focus",
                !.status = "running",
                !.remainingMs = remainingMs,
                !.targetEnd = Some(DateNow + remainingMs)]

start(s) ==
  LET remainingMs == durationForPhase("focus", s.config)
  IN  [s EXCEPT !.phase = "focus",
                !.status = "running",
                !.remainingMs = remainingMs,
                !.targetEnd = Some(DateNow + remainingMs),
                !.completedFocusCount = 0]

\* (a pause that leaves the deadline in place)
pauseKeepsDeadline(s) ==
  IF s.status # "running" THEN s
  ELSE [s EXCEPT !.status = "paused"]

\* (a pause without its guard)
pauseFromAny(s) == [s EXCEPT !.status = "paused", !.targetEnd = Null]

pause(s) ==
  IF s.status # "running" THEN s
  ELSE [s EXCEPT !.status = "paused", !.targetEnd = Null]

\* (a resume that restarts the phase's full duration)
resumeFullDuration(s) ==
  IF s.status # "paused" /\ s.status # "idle" THEN s
  ELSE [s EXCEPT !.status = "running",
                 !.targetEnd = Some(DateNow + durationForPhase(s.phase, s.config))]

\* (a resume that is valid from Paused only)
resumeOnlyPaused(s) ==
  IF s.status # "paused" THEN s
  ELSE [s EXCEPT !.status = "running",
                 !.targetEnd = Some(DateNow + s.remainingMs)]

\* (a resume without its guard)
resumeFromAny(s) ==
  [s EXCEPT !.status = "running", !.targetEnd = Some(DateNow + s.remainingMs)]

resume(s) ==
  IF s.status # "paused" /\ s.status # "idle" THEN s
  ELSE [s EXCEPT !.status = "running",
                 !.targetEnd = Some(DateNow + s.remainingMs)]

\* (a reset to the built-in focus duration)
resetToDefault(s) ==
  [s EXCEPT !.phase = "focus",
            !.status = "idle",
            !.remainingMs = durationForPhase("focus", initialConfig),
            !.targetEnd = Null,
            !.completedFocusCount = 0]

reset(s) ==
  [s EXCEPT !.phase = "focus",
            !.status = "idle",
            !.remainingMs = durationForPhase("focus", s.config),
            !.targetEnd = Null,
            !.completedFocusCount = 0]

\* (a setRemaining that does not look at the status)
setRemainingFromAny(s, remainingMs) == [s EXCEPT !.remainingMs = remainingMs]

setRemaining(s, remainingMs) ==
  IF s.status # "running" THEN s
  ELSE [s EXCEPT !.remainingMs = remainingMs]

\* (a completion that forgets to count the focus session)
completePhaseNoIncrement(s) ==
  LET achieved == s.completedFocusCount + 1
      isLong == achieved >= s.config.sessionsBeforeLongBreak
      nextPhase ==
        IF s.phase = "focus"
        THEN IF isLong THEN "longBreak" ELSE "shortBreak"
        ELSE "focus"
      nextFocusCount ==
        IF s.phase = "focus"
        THEN IF isLong THEN 0 ELSE s.completedFocusCount
        ELSE IF s.phase = "longBreak" THEN 0 ELSE s.completedFocusCount
      nextDuration == durationForPhase(nextPhase, s.config)
      shouldAutoStart == s.config.autoStart
  IN  [s EXCEPT !.phase = nextPhase,
                !.status = IF shouldAutoStart THEN "running" ELSE "idle",
                !.remainingMs = nextDuration,
                !.targetEnd = IF shouldAutoStart
                              THEN Some(DateNow + nextDuration) ELSE Null,
                !.completedFocusCount = nextFocusCount]

\* (a completion that takes the long break one session late)
completePhaseLongAfter(s) ==
  LET achieved == s.completedFocusCount + 1
      isLong == achieved > s.config.sessionsBeforeLongBreak
      nextPhase ==
        IF s.phase = "focus"
        THEN IF isLong THEN "longBreak" ELSE "shortBreak"
        ELSE "focus"
      nextFocusCount ==
        IF s.phase = "focus"
        THEN IF isLong THEN 0 ELSE achieved
        ELSE IF s.phase = "longBreak" THEN 0 ELSE s.completedFocusCount
      nextDuration == durationForPhase(nextPhase, s.config)
      shouldAutoStart == s.config.autoStart
  IN  [s EXCEPT !.phase = nextPhase,
                !.status = IF shouldAutoStart THEN "running" ELSE "idle",
                !.remainingMs = nextDuration,
                !.targetEnd = IF shouldAutoStart
                              THEN Some(DateNow + nextDuration) ELSE Null,
                !.completedFocusCount = nextFocusCount]

\* (a completion where every break clears the focus count)
completePhaseBreakResets(s) ==
  LET achieved == s.completedFocusCount + 1
      isLong == achieved >= s.config.sessionsBeforeLongBreak
      nextPhase ==
        IF s.phase = "focus"
        THEN IF isLong THEN "longBreak" ELSE "shortBreak"
        ELSE "focus"
      nextFocusCount ==
        IF s.phase = "focus"
        THEN IF isLong THEN 0 ELSE achieved
        ELSE 0
      nextDuration == durationForPhase(nextPhase, s.config)
      shouldAutoStart == s.config.autoStart
  IN  [s EXCEPT !.phase = nextPhase,
                !.status = IF shouldAutoStart THEN "running" ELSE "idle",
                !.remainingMs = nextDuration,
                !.targetEnd = IF shouldAutoStart
                              THEN Some(DateNow + nextDuration) ELSE Null,
                !.completedFocusCount = nextFocusCount]

\* (a completion that reloads the finished phase's duration)
completePhaseOldDuration(s) ==
  LET achieved == s.completedFocusCount + 1
      isLong == achieved >= s.config.sessionsBeforeLongBreak
      nextPhase ==
        IF s.phase = "focus"
        THEN IF isLong THEN "longBreak" ELSE "shortBreak"
        ELSE "focus"
      nextFocusCount ==
        IF s.phase = "focus"
        THEN IF isLong THEN 0 ELSE achieved
        ELSE IF s.phase = "longBreak" THEN 0 ELSE s.completedFocusCount
      nextDuration == durationForPhase(s.phase, s.config)
      shouldAutoStart == s.config.autoStart
  IN  [s EXCEPT !.phase = nextPhase,
                !.status = IF shouldAutoStart THEN "running" ELSE "idle",
                !.remainingMs = nextDuration,
                !.targetEnd = IF shouldAutoStart
                              THEN Some(DateNow + nextDuration) ELSE Null,
                !.completedFocusCount = nextFocusCount]

\* (a completion that enters the long break without clearing the count)
completePhaseKeepsCount(s) ==
  LET achieved == s.completedFocusCount + 1
      isLong == achieved >= s.config.sessionsBeforeLongBreak
      nextPhase ==
        IF s.phase = "focus"
        THEN IF isLong THEN "longBreak" ELSE "shortBreak"
        ELSE "focus"
      nextFocusCount ==
        IF s.phase = "focus"
        THEN IF isLong THEN achieved ELSE achieved
        ELSE IF s.phase = "longBreak" THEN 0 ELSE s.completedFocusCount
      nextDuration == durationForPhase(nextPhase, s.config)
      shouldAutoStart == s.config.autoStart
  IN  [s EXCEPT !.phase = nextPhase,
                !.status = IF shouldAutoStart THEN "running" ELSE "idle",
                !.remainingMs = nextDuration,
                !.targetEnd = IF shouldAutoStart
                              THEN Some(DateNow + nextDuration) ELSE Null,
                !.completedFocusCount = nextFocusCount]

completePhase(s) ==
  LET achieved == s.completedFocusCount + 1
      nextPhase ==
        IF s.phase = "focus"
        THEN IF achieved >= s.config.sessionsBeforeLongBreak
             THEN "longBreak" ELSE "shortBreak"
        ELSE "focus"
      nextFocusCount ==
        IF s.phase = "focus"
        THEN IF achieved >= s.config.sessionsBeforeLongBreak
             THEN 0 ELSE achieved
        ELSE IF s.phase = "longBreak" THEN 0 ELSE s.completedFocusCount
      nextDuration == durationForPhase(nextPhase, s.config)
      shouldAutoStart == s.config.autoStart
  IN  [s EXCEPT !.phase = nextPhase,
                !.status = IF shouldAutoStart THEN "running" ELSE "idle",
                !.remainingMs = nextDuration,
                !.targetEnd = IF shouldAutoStart
                              THEN Some(DateNow + nextDuration) ELSE Null,
                !.completedFocusCount = nextFocusCount]

\* (a skip that acts on a running countdown only)
skipWhenRunning(s) == IF s.status # "running" THEN s ELSE completePhase(s)

skip(s) == completePhase(s)

\* (an updateConfig that recomputes remainingMs whatever the status)
updateConfigRecomputes(s, partial) ==
  LET config == partial @@ s.config
  IN  [s EXCEPT !.config = config,
                !.remainingMs = durationForPhase(s.phase, config)]

\* (an updateConfig that never touches remainingMs)
updateConfigKeepsRemaining(s, partial) ==
  [s EXCEPT !.config = partial @@ s.config]

\* partial: a function from some of the config's field names to new values
updateConfig(s, partial) ==
  LET config == partial @@ s.config
      remainingMs == durationForPhase(s.phase, config)
  IN  IF s.status = "idle"
      THEN [s EXCEPT !.config = config, !.remainingMs = remainingMs]
      ELSE [s EXCEPT !.config = config]

presetConfig(preset) ==
  [focusMinutes |-> preset.focusMinutes,
   shortBreakMinutes |-> preset.shortBreakMinutes,
   longBreakMinutes |-> preset.longBreakMinutes,
   sessionsBeforeLongBreak |-> preset.sessionsBeforeLongBreak,
   autoStart |-> preset.autoStart]

\* (a loadPreset that takes the focus duration from the config it replaces)
loadPresetOldDuration(s, id) ==
  LET found == {i \in DOMAIN s.presets : s.presets[i].id = id}
  IN  IF found = {} THEN s
      ELSE LET preset == s.presets[CHOOSE i \in found : \A j \in found : i <= j]
           IN  [s EXCEPT !.config = presetConfig(preset),
                         !.phase = "focus",
                         !.status = "idle",
                         !.remainingMs = durationForPhase("focus", s.config),
                         !.targetEnd = Null,
                         !.completedFocusCount = 0,
                         !.selectedPresetId = Some(preset.id)]

loadPreset(s, id) ==
  LET found == {i \in DOMAIN s.presets : s.presets[i].id = id}
  IN  IF found = {} THEN s
      ELSE LET preset == s.presets[CHOOSE i \in found : \A j \in found : i <= j]
           IN  [s EXCEPT !.config = presetConfig(preset),
                         !.phase = "focus",
                         !.status = "idle",
                         !.remainingMs = durationForPhase("focus", preset),
                         !.targetEnd = Null,
                         !.completedFocusCount = 0,
                         !.selectedPresetId = Some(preset.id)]

----------------------------------------------------------------------------
(* The observer.  obs.fired, obs.published and obs.completed log what the  *)
(* last task did: the phase-complete callbacks it invoked, the values the  *)
(* scheduler handed to setRemaining, the completePhase calls.  obs.cycle   *)
(* counts, independently of completedFocusCount, the Focus phases completed*)
(* since start() or since the last LongBreak completed, while nothing but  *)
(* pause, resume and completions happened; obs.signalled holds the         *)
(* deadlines whose completion was signalled and that a timer is still      *)
(* armed for.  obs.op is the store operation the last task called: its     *)
(* name, its argument, and the status and phase it found.  obs.ran, where  *)
(* it is kept (it is Null elsewhere), is the time spent in Running since   *)
(* the current phase began and obs.pauses the pauses taken in it;          *)
(* obs.total is obs.ran as the completePhase call of the last task found   *)
(* it.  obs.stopped says that the client's last ambient call was           *)
(* stopAmbient().                                                          *)

NoObs == [fired |-> <<>>, published |-> <<>>, completed |-> <<>>,
          signalled |-> {}, cycle |-> Null, op |-> Null,
          calls |-> <<>>, disconnected |-> <<>>, sets |-> <<>>,
          ran |-> Null, pauses |-> 0, total |-> Null, stopped |-> FALSE]

\* setRemaining is being called with `value` on store state s
ObserveSet(o, s, value) ==
  [o EXCEPT !.sets = Append(@, [status |-> s.status,
                                before |-> s.remainingMs,
                                value |-> value,
                                after |-> setRemaining(s, value).remainingMs])]

\* the task calls the store operation `name` with argument arg on state s
ObserveOp(o, name, arg, s) ==
  [o EXCEPT !.op = Some([name |-> name, arg |-> arg,
                         status |-> s.status, phase |-> s.phase])]

\* completePhase is being called on store state s
ObserveComplete(o, s) ==
  [o EXCEPT !.completed = Append(@, [phase |-> s.phase,
                                      count |-> s.completedFocusCount,
                                      status |-> s.status]),
            !.cycle = IF @ = Null THEN Null
                      ELSE IF s.phase = "focus" THEN Some(Val(@) + 1)
                      ELSE IF s.phase = "longBreak" THEN Some(0)
                      ELSE @,
            !.total = o.ran,
            !.ran = IF @ = Null THEN Null ELSE Some(0),
            !.pauses = 0]

\* an operation other than pause, resume or a completion took s to s2
ObserveOther(o, s, s2) ==
  IF s2 = s THEN o ELSE [o EXCEPT !.cycle = Null]

----------------------------------------------------------------------------
(* The soundscape hook (useSoundscape) and the browser's audio objects.    *)
(* w.sound holds the hook's refs, the audio contexts, intervals and nodes  *)
(* the browser keeps, the media preferences, and the dependencies of App's *)
(* audio effects.  An async call that has to await context.resume() is     *)
(* parked in w.sound.pending until that promise settles; one that does not *)
(* is run through in the task that made it (its continuation is a          *)
(* microtask of that task).                                                *)

AlarmTones == {"gentleChime", "deepFocus", "brightPulse"}
AmbientModes == {"waves", "clouds", "gradient"}

\* the hosts: no Web Audio at all; an AudioContext constructor that throws;
\* contexts that are created suspended (autoplay policy); contexts that
\* are created running
Hosts == {"none", "throws", "suspended", "running"}

\* tonePresets: the tone events of each preset (milliseconds)
tonePresets ==
  [gentleChime |->
     <<[frequency |-> 784, startOffset |-> 0, duration |-> 450, decay |-> 400],
       [frequency |-> 987, startOffset |-> 150, duration |-> 500, decay |-> 450],
       [frequency |-> 523, startOffset |-> 400, duration |-> 600, decay |-> 550]>>,
   deepFocus |->
     <<[frequency |-> 220, startOffset |-> 0, duration |-> 600, decay |-> 400],
       [frequency |-> 440, startOffset |-> 300, duration |-> 500, decay |-> 350],
       [frequency |-> 660, startOffset |-> 550, duration |-> 450, decay |-> 400]>>,
   brightPulse |->
     <<[frequency |-> 880, startOffset |-> 0, duration |-> 250, decay |-> 250],
       [frequency |-> 1046, startOffset |-> 200, duration |-> 300, decay |-> 300],
       [frequency |-> 1318, startOffset |-> 350, duration |-> 350, decay |-> 400]>>]

\* scheduleTone: the oscillator made for one tone event, with its stop time
scheduleTone(tone) ==
  [frequency |-> tone.frequency,
   startTime |-> DateNow + tone.startOffset,
   stopTime |-> DateNow + tone.startOffset + tone.duration + tone.decay]

\* the nodes startAmbient registers in `sources` for a mode
AmbientSources(mode) ==
  CASE mode = "waves" ->
         {"osc0", "voiceGain0", "lfo0", "lfoGain0",
          "osc1", "voiceGain1", "lfo1", "lfoGain1",
          "osc2", "voiceGain2", "lfo2", "lfoGain2"}
    [] mode = "clouds" ->
         {"base", "shimmer", "pitchGain", "voiceGain", "delay", "feedback"}
    [] OTHER ->
         {"pad", "padGain", "filter", "lfo", "lfoGain", "bell", "bellGain"}

\* every node of the graph of handle h: its sources and its gain bus
GraphNodes(h) ==
  {[graph |-> h.graph, node |-> n] : n \in h.sources \cup {h.gain}}

isAudioSupported(snd) == snd.host # "none"

NoSound(host, prefs) ==
  [host |-> host,
   mounted |-> TRUE,
   contextRef |-> Null,
   contexts |-> <<>>,
   tickIntervalRef |-> Null,
   intervals |-> {},
   ambientRef |-> Null,
   nodes |-> {},
   masters |-> {},
   selectedTone |-> "gentleChime",
   pending |-> <<>>,
   tickEnabled |-> prefs.tickEnabled,
   ambientEnabled |-> prefs.ambientEnabled,
   ambientVolume |-> prefs.ambientVolume,
   backgroundMode |-> prefs.backgroundMode,
   tickDeps |-> Null,
   ambientDeps |-> Null]

\* one call of an async function of the hook: who made it, its arguments
\* (mode, volume, tone), what the caller's closure holds (status,
\* cancelled), and the context whose resume() it awaits
NewCall(fn, owner) ==
  [fn |-> fn, owner |-> owner, mode |-> "-", volume |-> 0, tone |-> "-",
   status |-> "-", cancelled |-> FALSE, ctx |-> Null]

\* the callers that attach .catch(() => undefined) to the promise
Swallows(call) == call.owner \in {"tickEffect", "ambientEffect", "ticking"}

\* the call has settled, resolving with `result` or rejecting
Settled(w, call, result, did) ==
  [w EXCEPT !.obs.calls =
     Append(@, [fn |-> call.fn, owner |-> call.owner, mode |-> call.mode,
                volume |-> call.volume, tone |-> call.tone,
                result |-> result, swallowed |-> Swallows(call),
                did |-> did])]

\* (an ensureContext that builds a new context on every call)
ensureContextAlwaysNew(w) ==
  LET snd == w.sound
  IN  IF snd.host = "none" THEN [w |-> w, out |-> "null"]
      ELSE IF snd.host = "throws" THEN [w |-> w, out |-> "throw"]
      ELSE [w |-> [w EXCEPT !.sound.contexts = Append(@, snd.host),
                            !.sound.contextRef = Some(Len(snd.contexts) + 1)],
            out |-> IF snd.host = "suspended" THEN "await" ELSE "ctx"]

\* (an ensureContext that raises on a host without audio)
ensureContextUnsupportedThrows(w) ==
  LET snd == w.sound
  IN  IF snd.contextRef # Null
      THEN [w |-> w,
            out |-> IF snd.contexts[Val(snd.contextRef)] = "suspended"
                    THEN "await" ELSE "ctx"]
      ELSE IF snd.host \in {"none", "throws"} THEN [w |-> w, out |-> "throw"]
      ELSE [w |-> [w EXCEPT !.sound.contexts = Append(@, snd.host),
                            !.sound.contextRef = Some(Len(snd.contexts) + 1)],
            out |-> IF snd.host = "suspended" THEN "await" ELSE "ctx"]

\* ensureContext up to its first await: out is "ctx" (it returns the
\* context), "null" (no audio), "throw" (getContext raised) or "await" (it
\* called resume() on a suspended context and waits)
ensureContext(w) ==
  LET snd == w.sound
  IN  IF snd.contextRef # Null
      THEN [w |-> w,
            out |-> IF snd.contexts[Val(snd.contextRef)] = "suspended"
                    THEN "await" ELSE "ctx"]
      ELSE IF snd.host = "none" THEN [w |-> w, out |-> "null"]
      ELSE IF snd.host = "throws" THEN [w |-> w, out |-> "throw"]
      ELSE [w |-> [w EXCEPT !.sound.contexts = Append(@, snd.host),
                            !.sound.contextRef = Some(Len(snd.contexts) + 1)],
            out |-> IF snd.host = "suspended" THEN "await" ELSE "ctx"]

\* ensureContext after its await: resume() resolved or rejected
ensureContextResumed(w, resolved) ==
  IF ~ resolved THEN "throw"
  ELSE IF w.sound.contextRef # Null THEN "ctx" ELSE "null"

FreshId(ids) == CHOOSE i \in 1..(Cardinality(ids) + 1) : i \notin ids

stopTicking(w) ==
  IF w.sound.tickIntervalRef # Null
  THEN [w EXCEPT !.sound.intervals = @ \ {Val(w.sound.tickIntervalRef)},
                 !.sound.tickIntervalRef = Null]
  ELSE w

\* (a stopAmbient that leaves the gain bus connected)
stopAmbientKeepsBus(w) ==
  IF w.sound.ambientRef = Null THEN w
  ELSE LET h == Val(w.sound.ambientRef)
       IN  [w EXCEPT !.sound.nodes =
                        {n \in @ : ~ (n.graph = h.graph /\ n.node \in h.sources)},
                     !.sound.ambientRef = Null]

stopAmbient(w) ==
  IF w.sound.ambientRef = Null THEN w
  ELSE [w EXCEPT !.sound.nodes = @ \ GraphNodes(Val(w.sound.ambientRef)),
                 !.sound.ambientRef = Null]

setAmbientVolume(w, value) ==
  IF w.sound.contextRef = Null \/ w.sound.ambientRef = Null THEN w
  ELSE [w EXCEPT !.sound.ambientRef = Some([Val(@) EXCEPT !.target = value])]

\* what a settled call did to the ambient graph
Nothing == [created |-> {}, released |-> {}, retargeted |-> FALSE]

\* F(x), with x evaluated once
Bind(F(_), x) == CHOOSE r \in {F(v) : v \in {x}} : TRUE

RECURSIVE Call(_, _)

\* playTickPulse after `await ensureContext()` (the pulse's own source and
\* gain, disconnected after 400 ms, are not kept)
playTickPulseThen(w, call, out) ==
  IF out = "throw" THEN Settled(w, call, "rejected", Nothing)
  ELSE IF out = "null" THEN Settled(w, call, "void", Nothing)
  ELSE Settled(w, call, "done", Nothing)

MasterLifetime == 3500

\* the master gain node of one alarm with the oscillators scheduleTone
\* connected to it and the time its disconnect timeout is due
Master(w, tone, lifetime) ==
  [id |-> FreshId({m.id : m \in w.sound.masters}),
   tone |-> tone,
   oscillators |-> {scheduleTone(tonePresets[tone][i]) :
                      i \in 1..Len(tonePresets[tone])},
   due |-> DateNow + lifetime]

\* (a playAlarm that disconnects its master gain after one second)
playAlarmEarlyDisconnect(w, call, out) ==
  IF out = "throw" THEN Settled(w, call, "rejected", Nothing)
  ELSE IF out = "null" THEN Settled(w, call, "void", Nothing)
  ELSE Settled([w EXCEPT !.sound.masters =
                   @ \cup {Master(w, call.tone, 1000)}],
               call, "done", Nothing)

\* playAlarm after `await ensureContext()`
playAlarmThen(w, call, out) ==
  IF out = "throw" THEN Settled(w, call, "rejected", Nothing)
  ELSE IF out = "null" THEN Settled(w, call, "void", Nothing)
  ELSE Settled([w EXCEPT !.sound.masters =
                   @ \cup {Master(w, call.tone, MasterLifetime)}],
               call, "done", Nothing)

\* (a startTicking that does not look at tickIntervalRef)
startTickingNoGuard(w, call, out) ==
  IF out = "throw" THEN Settled(w, call, "rejected", Nothing)
  ELSE IF out = "null" THEN Settled(w, call, "false", Nothing)
  ELSE LET w1 == Call(w, [NewCall("playTickPulse", "ticking")
                            EXCEPT !.volume = call.volume])
           id == FreshId(w1.sound.intervals)
       IN  Settled([w1 EXCEPT !.sound.intervals = @ \cup {id},
                              !.sound.tickIntervalRef = Some(id)],
                   call, "true", Nothing)

\* startTicking after `await ensureContext()`
startTickingThen(w, call, out) ==
  IF out = "throw" THEN Settled(w, call, "rejected", Nothing)
  ELSE IF out = "null" THEN Settled(w, call, "false", Nothing)
  ELSE IF w.sound.tickIntervalRef # Null
  THEN Settled(w, call, "true", Nothing)
  ELSE LET w1 == Call(w, [NewCall("playTickPulse", "ticking")
                            EXCEPT !.volume = call.volume])
           id == FreshId(w1.sound.intervals)
       IN  Settled([w1 EXCEPT !.sound.intervals = @ \cup {id},
                              !.sound.tickIntervalRef = Some(id)],
                   call, "true", Nothing)

\* the part of startAmbient that builds the graph for call.mode
BuildAmbient(w, call) ==
  LET graph == FreshId({n.graph : n \in w.sound.nodes})
      h == [mode |-> call.mode, graph |-> graph, gain |-> "gain",
            sources |-> AmbientSources(call.mode), target |-> call.volume]
  IN  [w EXCEPT !.sound.nodes = @ \cup GraphNodes(h),
                !.sound.ambientRef = Some(h)]

\* (a startAmbient that rebuilds the graph of the mode that is playing)
startAmbientAlwaysBuilds(w, call, out) ==
  IF out = "throw" THEN Settled(w, call, "rejected", Nothing)
  ELSE IF out = "null" THEN Settled(w, call, "false", Nothing)
  ELSE LET w1 == stopAmbient(w)
           w2 == BuildAmbient(w1, call)
       IN  Settled(w2, call, "true",
                   [created |-> w2.sound.nodes \ w1.sound.nodes,
                    released |-> w.sound.nodes \ w1.sound.nodes,
                    retargeted |-> FALSE])

\* startAmbient after `await ensureContext()`
startAmbientThen(w, call, out) ==
  IF out = "throw" THEN Settled(w, call, "rejected", Nothing)
  ELSE IF out = "null" THEN Settled(w, call, "false", Nothing)
  ELSE IF w.sound.ambientRef # Null /\ Val(w.sound.ambientRef).mode = call.mode
  THEN Settled([w EXCEPT !.sound.ambientRef =
                   Some([Val(@) EXCEPT !.target = call.volume])],
               call, "true", [Nothing EXCEPT !.retargeted = TRUE])
  ELSE LET w1 == stopAmbient(w)
           w2 == BuildAmbient(w1, call)
       IN  Settled(w2, call, "true",
                   [created |-> w2.sound.nodes \ w1.sound.nodes,
                    released |-> w.sound.nodes \ w1.sound.nodes,
                    retargeted |-> FALSE])

\* (a primary action that resumes whatever is not running)
primaryThenResumesIdle(w, status) ==
  IF status = "running"
  THEN [w EXCEPT !.store = pause(w.store),
                 !.obs = ObserveOp(@, "pause", Null, w.store)]
  ELSE [w EXCEPT !.store = resume(w.store),
                 !.obs = ObserveOp(@, "resume", Null, w.store)]

\* handlePrimaryAction after `await prime()`: the status is the one the
\* handler's closure captured
primaryThen(w, status) ==
  IF status = "running"
  THEN [w EXCEPT !.store = pause(w.store),
                 !.obs = ObserveOp(@, "pause", Null, w.store)]
  ELSE IF status = "paused"
  THEN [w EXCEPT !.store = resume(w.store),
                 !.obs = ObserveOp(@, "resume", Null, w.store)]
  ELSE [w EXCEPT !.store = start(w.store),
                 !.obs = ObserveOp([@ EXCEPT !.cycle = Some(0)],
                                   "start", Null, w.store)]

\* prime after `await ensureContext()`, and what its caller chained on it:
\* handlePrimaryAction goes on to the store, the two toggle handlers set
\* the preference, the ambient effect's .then starts the ambient graph
\* unless its cleanup has run
primeThen(w, call, out) ==
  LET w1 == Settled(w, call,
                    IF out = "throw" THEN "rejected"
                    ELSE IF out = "null" THEN "false" ELSE "true",
                    Nothing)
  IN  IF out = "throw" THEN w1
      ELSE IF call.owner = "client" THEN w1
      ELSE IF call.owner = "primaryAction" THEN primaryThen(w1, call.status)
      ELSE IF call.owner = "tickToggle"
      THEN [w1 EXCEPT !.sound.tickEnabled = TRUE]
      ELSE IF call.owner = "ambientToggle"
      THEN [w1 EXCEPT !.sound.ambientEnabled = TRUE]
      ELSE IF call.cancelled THEN w1
      ELSE Call(w1, [NewCall("startAmbient", "ambientEffect")
                       EXCEPT !.mode = call.mode, !.volume = call.volume])

\* the rest of an async function once ensureContext has returned or raised
Continue(w, call, out) ==
  CASE call.fn = "prime" -> primeThen(w, call, out)
    [] call.fn = "playAlarm" -> playAlarmThen(w, call, out)
    [] call.fn = "playTickPulse" -> playTickPulseThen(w, call, out)
    [] call.fn = "startTicking" -> startTickingThen(w, call, out)
    [] OTHER -> startAmbientThen(w, call, out)

\* a call of an async function of the hook, once ensureContext has come
\* to its first await or has returned: e is what ensureContext gave
Ensured(e, call) ==
  IF e.out = "await"
  THEN [e.w EXCEPT !.sound.pending =
          Append(@, [call EXCEPT !.ctx = e.w.sound.contextRef])]
  ELSE Continue(e.w, call, e.out)

\* a call of an async function of the hook
Call(w, call) ==
  Bind(LAMBDA e : Ensured(e, call), Bind(ensureContext, w))

\* App's tick effect
tickDepsOf(w) ==
  [tickEnabled |-> w.sound.tickEnabled,
   phase |-> w.store.phase,
   status |-> w.store.status]

shouldTick(d) == d.tickEnabled /\ d.status = "running" /\ d.phase = "focus"

TickVolume == 35

tickEffect(w) ==
  LET prev == w.sound.tickDeps
      w1 == IF prev # Null /\ shouldTick(Val(prev)) THEN stopTicking(w) ELSE w
      d == tickDepsOf(w1)
      w2 == [w1 EXCEPT !.sound.tickDeps = Some(d)]
  IN  IF shouldTick(d)
      THEN Call(w2, [NewCall("startTicking", "tickEffect")
                       EXCEPT !.volume = TickVolume])
      ELSE stopTicking(w2)

\* App's ambient effects: the one on ambientVolume (setAmbientGain), then
\* the one that primes and starts the graph
ambientDepsOf(w) ==
  [ambientEnabled |-> w.sound.ambientEnabled,
   backgroundMode |-> w.sound.backgroundMode,
   ambientVolume |-> w.sound.ambientVolume,
   audioSupported |-> isAudioSupported(w.sound)]

shouldPlay(d) == d.ambientEnabled /\ d.audioSupported

\* the cleanup of the ambient effect: cancelled = true, stopAmbient()
ambientCleanup(w) ==
  stopAmbient([w EXCEPT !.sound.pending =
     [i \in 1..Len(@) |->
        IF @[i].fn = "prime" /\ @[i].owner = "ambientEffect"
        THEN [@[i] EXCEPT !.cancelled = TRUE] ELSE @[i]]])

ambientEffect(w) ==
  LET prev == w.sound.ambientDeps
      d == ambientDepsOf(w)
      w0 == IF prev = Null \/ Val(prev).ambientVolume # d.ambientVolume
            THEN setAmbientVolume(w, d.ambientVolume) ELSE w
      w1 == IF prev # Null /\ shouldPlay(Val(prev))
            THEN ambientCleanup(w0) ELSE w0
      w2 == [w1 EXCEPT !.sound.ambientDeps = Some(d)]
  IN  IF shouldPlay(d)
      THEN Call(w2, [NewCall("prime", "ambientEffect")
                       EXCEPT !.mode = d.backgroundMode,
                              !.volume = d.ambientVolume])
      ELSE stopAmbient(w2)

\* the effects of App whose dependencies changed re-run, in the order
\* App declares them
tickRendered(w) ==
  IF w.sound.tickDeps = Some(tickDepsOf(w)) THEN w ELSE tickEffect(w)

ambientRendered(w) ==
  IF w.sound.ambientDeps = Some(ambientDepsOf(w)) THEN w ELSE ambientEffect(w)

soundEffects(w) == Bind(ambientRendered, Bind(tickRendered, w))

\* (a teardown that leaves the tick interval running)
teardownKeepsInterval(w) ==
  LET w2 == IF w.sound.ambientRef # Null THEN stopAmbient(w) ELSE w
  IN  IF w2.sound.contextRef # Null
      THEN [w2 EXCEPT !.sound.contexts[Val(w2.sound.contextRef)] = "closed",
                      !.sound.contextRef = Null]
      ELSE w2

\* the cleanup of the hook's mount effect
teardown(w) ==
  LET w1 == IF w.sound.tickIntervalRef # Null THEN stopTicking(w) ELSE w
      w2 == IF w1.sound.ambientRef # Null THEN stopAmbient(w1) ELSE w1
  IN  IF w2.sound.contextRef # Null
      THEN [w2 EXCEPT !.sound.contexts[Val(w2.sound.contextRef)] = "closed",
                      !.sound.contextRef = Null]
      ELSE w2

----------------------------------------------------------------------------
(* The countdown scheduler (useTimerEngine).                               *)
(* A world w = [store, engine, timers, sound, obs] is threaded through the *)
(* code of one task.                                                       *)

\* (one-second polling whatever remains)
getTickIntervalFixed(remaining) == 1000

getTickInterval(remaining) ==
  IF remaining > 5 * 60000 THEN 1000
  ELSE IF remaining > 60000 THEN 500
  ELSE IF remaining > 10000 THEN 250
  ELSE 100

\* the dependency array of the effect, as of one render
\* (completePhase and setRemaining are stable store actions; a change of
\* onPhaseComplete is the task Rerender)
depsOf(s) ==
  [status |-> s.status, targetEnd |-> s.targetEnd, phase |-> s.phase]

\* window.setTimeout hands out an id no pending timer has
FreshTimerId(ts) ==
  CHOOSE i \in 1..(Cardinality(ts) + 1) :
    /\ \A t \in ts : t.id # i
    /\ \A j \in 1..(i - 1) : \E t \in ts : t.id = j

\* (a clearTimeout that cancels nothing)
clearPendingNoop(w) == w

\* if (timeoutRef.current) { window.clearTimeout(timeoutRef.current);
\*                           timeoutRef.current = null; }
clearPending(w) ==
  IF w.engine.timeoutRef # Null
  THEN [w EXCEPT !.timers = {t \in @ : t.id # Val(w.engine.timeoutRef)},
                 !.engine.timeoutRef = Null]
  ELSE w

\* step, in the closure c = [targetEnd, phase] of the effect run that made
\* it; via says how it was called (from the effect body or from a timer)
\* (a step that calls completePhase before the phase-complete callback)
stepCompletesFirst(w, c, via) ==
  LET remaining == c.targetEnd - DateNow
  IN  IF remaining <= 0
      THEN IF ~ w.engine.completionHandled
           THEN LET s1 == setRemaining(w.store, 0)
                    s2 == completePhase(s1)
                    signal == [phase |-> c.phase,
                               remaining |-> remaining,
                               shown |-> s2.remainingMs,
                               storePhase |-> s2.phase,
                               current |-> w.store.status = "running"
                                           /\ w.store.targetEnd = Some(c.targetEnd),
                               again |-> c \in w.obs.signalled,
                               via |-> via]
                    wa == Call(w, [NewCall("playAlarm", "phaseComplete")
                                     EXCEPT !.tone = w.sound.selectedTone])
                IN  [wa EXCEPT !.store = s2,
                              !.engine.completionHandled = TRUE,
                              !.obs = ObserveComplete(
                                        [ObserveSet(@, w.store, 0)
                                           EXCEPT !.fired = Append(@, signal),
                                                  !.signalled = @ \cup {c}],
                                        s1)]
           ELSE w
      ELSE LET interval == getTickInterval(remaining)
               timer == [id |-> FreshTimerId(w.timers),
                         due |-> DateNow + interval,
                         delay |-> interval,
                         targetEnd |-> c.targetEnd,
                         phase |-> c.phase]
           IN  [w EXCEPT !.store = setRemaining(w.store, remaining),
                         !.obs = ObserveSet(
                                   [@ EXCEPT !.published = Append(@, remaining)],
                                   w.store, remaining),
                         !.timers = @ \cup {timer},
                         !.engine.timeoutRef = Some(timer.id)]

step(w, c, via) ==
  LET remaining == c.targetEnd - DateNow
  IN  IF remaining <= 0
      THEN IF ~ w.engine.completionHandled
           THEN LET s1 == setRemaining(w.store, 0)
                    signal == [phase |-> c.phase,
                               remaining |-> remaining,
                               shown |-> s1.remainingMs,
                               storePhase |-> s1.phase,
                               current |-> w.store.status = "running"
                                           /\ w.store.targetEnd = Some(c.targetEnd),
                               again |-> c \in w.obs.signalled,
                               via |-> via]
                    wa == Call(w, [NewCall("playAlarm", "phaseComplete")
                                     EXCEPT !.tone = w.sound.selectedTone])
                    s2 == completePhase(s1)
                IN  [wa EXCEPT !.store = s2,
                              !.engine.completionHandled = TRUE,
                              !.obs = ObserveComplete(
                                        [ObserveSet(@, w.store, 0)
                                           EXCEPT !.fired = Append(@, signal),
                                                  !.signalled = @ \cup {c}],
                                        s1)]
           ELSE w
      ELSE LET interval == getTickInterval(remaining)
               timer == [id |-> FreshTimerId(w.timers),
                         due |-> DateNow + interval,
                         delay |-> interval,
                         targetEnd |-> c.targetEnd,
                         phase |-> c.phase]
           IN  [w EXCEPT !.store = setRemaining(w.store, remaining),
                         !.obs = ObserveSet(
                                   [@ EXCEPT !.published = Append(@, remaining)],
                                   w.store, remaining),
                         !.timers = @ \cup {timer},
                         !.engine.timeoutRef = Some(timer.id)]

FromEffect == [timer |-> FALSE, late |-> 0, delay |-> 0]
FromTimer(t) == [timer |-> TRUE, late |-> DateNow - t.due, delay |-> t.delay]

\* (an effect that returns no cleanup: a re-run cancels nothing first)
effectNoCleanup(w) ==
  LET d == depsOf(w.store)
      w2 == [w EXCEPT !.engine.deps = d]
  IN  IF d.status # "running" \/ d.targetEnd = Null
      THEN clearPending(w2)
      ELSE step([w2 EXCEPT !.engine.completionHandled = FALSE],
                [targetEnd |-> Val(d.targetEnd), phase |-> d.phase],
                FromEffect)

\* (an effect that never unsets the single-fire latch)
effectKeepsLatch(w) ==
  LET prev == w.engine.deps
      w1 == IF prev.status = "running" /\ prev.targetEnd # Null
            THEN clearPending(w) ELSE w
      d == depsOf(w1.store)
      w2 == [w1 EXCEPT !.engine.deps = d]
  IN  IF d.status # "running" \/ d.targetEnd = Null
      THEN clearPending(w2)
      ELSE step(w2, [targetEnd |-> Val(d.targetEnd), phase |-> d.phase],
                FromEffect)

\* one re-run of the effect: the cleanup the previous run returned (it
\* returned one only when it got past the early return), then the body.
\* `!targetEnd` is about the absolute timestamp, which is never 0.
effect(w) ==
  LET prev == w.engine.deps
      w1 == IF prev.status = "running" /\ prev.targetEnd # Null
            THEN clearPending(w) ELSE w
      d == depsOf(w1.store)
      w2 == [w1 EXCEPT !.engine.deps = d]
  IN  IF d.status # "running" \/ d.targetEnd = Null
      THEN clearPending(w2)
      ELSE step([w2 EXCEPT !.engine.completionHandled = FALSE],
                [targetEnd |-> Val(d.targetEnd), phase |-> d.phase],
                FromEffect)

\* render after the task's store updates: the effect re-runs while its
\* dependencies differ from those of its last run
RECURSIVE Flush(_)
Rendered(w) ==
  IF depsOf(w.store) = w.engine.deps THEN w ELSE Flush(effect(w))

Flush(w) ==
  IF ~ w.sound.mounted THEN w ELSE Bind(Rendered, soundEffects(w))

----------------------------------------------------------------------------
(* Tasks                                                                   *)

\* the observer forgets a signalled deadline once no timer is armed for it
Forget(o, ts) ==
  [o EXCEPT !.signalled =
     {c \in @ : \E t \in ts : t.targetEnd = c.targetEnd /\ t.phase = c.phase}]

World ==
  [store |-> store, engine |-> engine, timers |-> timers, sound |-> sound,
   obs |-> [obs EXCEPT !.fired = <<>>, !.published = <<>>, !.completed = <<>>,
                       !.op = Null, !.calls = <<>>, !.disconnected = <<>>,
                       !.sets = <<>>, !.total = Null]]

\* the task's code has run and left world w: render, then the task ends
Task(w) ==
  \E w1 \in {w} :
    \E w2 \in {Flush(w1)} :
      /\ sound.mounted
      /\ Len(w2.sound.pending) <= MaxPending
      /\ Cardinality(w2.sound.masters) <= MaxMasters
      /\ store' = w2.store
      /\ engine' = w2.engine
      /\ timers' = w2.timers
      /\ sound' = w2.sound
      /\ obs' = Forget(w2.obs, w2.timers)

Start ==
  Task([World EXCEPT
          !.store = start(store),
          !.obs = ObserveOp([@ EXCEPT !.cycle = Some(0)],
                            "start", Null, store)])

Pause ==
  Task([World EXCEPT
          !.store = pause(store),
          !.obs = ObserveOp(@, "pause", Null, store)])

Resume ==
  Task([World EXCEPT
          !.store = resume(store),
          !.obs = ObserveOp(@, "resume", Null, store)])

Reset ==
  Task([World EXCEPT
          !.store = reset(store),
          !.obs = ObserveOp([@ EXCEPT !.cycle = Null],
                            "reset", Null, store)])

Skip ==
  Task([World EXCEPT
          !.store = skip(store),
          !.obs = ObserveOp(ObserveComplete(@, store),
                            "skip", Null, store)])

CompletePhase ==
  Task([World EXCEPT
          !.store = completePhase(store),
          !.obs = ObserveOp(ObserveComplete(@, store), "completePhase",
                            Null, store)])

\* the config panel's handlers: one field per edit
Partials ==
  {[focusMinutes |-> m] : m \in FocusChoices}
    \cup {[sessionsBeforeLongBreak |-> n] : n \in 1..MaxSessions}
    \cup {[autoStart |-> b] : b \in BOOLEAN}

UpdateConfig ==
  \E partial \in Partials :
    Task([World EXCEPT
            !.store = updateConfig(store, partial),
            !.obs = ObserveOp(
                      ObserveOther(@, store, updateConfig(store, partial)),
                      "updateConfig", Some(partial), store)])

LoadPreset ==
  \E id \in PresetIds :
    Task([World EXCEPT
            !.store = loadPreset(store, id),
            !.obs = ObserveOp(ObserveOther(@, store, loadPreset(store, id)),
                              "loadPreset", Some(id), store)])

\* a pending timeout whose time has come runs step
TimerFire ==
  \E t \in timers :
    /\ t.due <= DateNow
    /\ Task(step([World EXCEPT !.timers = @ \ {t}],
                 [targetEnd |-> t.targetEnd, phase |-> t.phase],
                 FromTimer(t)))

\* App re-renders with a new handlePhaseComplete (alarm volume or
\* notification permission changed): the effect's dependency changes
Rerender == Task(effect(World))

Shift(o, d) == IF o = Null THEN Null ELSE Some(Val(o) - d)

\* d milliseconds pass
Elapse(d) ==
  /\ store' = [store EXCEPT !.targetEnd = Shift(@, d)]
  /\ engine' = [engine EXCEPT !.deps.targetEnd = Shift(@, d)]
  /\ timers' = {[t EXCEPT !.due = @ - d, !.targetEnd = @ - d] : t \in timers}
  /\ sound' = [sound EXCEPT !.masters =
                 {[m EXCEPT !.due = @ - d,
                            !.oscillators =
                               {[o EXCEPT !.startTime = @ - d,
                                          !.stopTime = @ - d] : o \in @}]
                    : m \in @}]
  /\ obs' = [World.obs EXCEPT
                !.signalled = {[c EXCEPT !.targetEnd = @ - d] : c \in @},
                !.ran = IF @ = Null \/ store.status # "running"
                        THEN @ ELSE Some(Val(@) + d)]

\* the clock moves on while a timeout is pending and none is overdue (the
\* wake-up is late by less than the longest delay)
Advance ==
  /\ timers # {}
  /\ \A t \in timers : t.due > DateNow
  /\ \E d \in Delays : Elapse(d)

\* persist: the stored config, presets and selectedPresetId are merged
\* over the state the creator function built
Rehydrated ==
  {initialStore,
   [initialStore EXCEPT !.config = StoredConfig, !.presets = StoredPresets]}

\* the media preferences a first visit starts with
DefaultPreferences ==
  [tickEnabled |-> FALSE, ambientEnabled |-> TRUE, ambientVolume |-> 40,
   backgroundMode |-> "gradient"]

\* the hook on a host without Web Audio, after App's audio effects have run
\* once
Silent ==
  soundEffects([store |-> initialStore, sound |-> NoSound("none", DefaultPreferences),
                obs |-> NoObs]).sound

\* the page has loaded and the effect has run once (its early return)
Init ==
  /\ store \in Rehydrated
  /\ engine = [completionHandled |-> FALSE, timeoutRef |-> Null,
               deps |-> depsOf(store)]
  /\ timers = {}
  /\ sound = Silent
  /\ obs = NoObs

Next ==
  \/ Start
  \/ Pause
  \/ Resume
  \/ Reset
  \/ Skip
  \/ CompletePhase
  \/ UpdateConfig
  \/ LoadPreset
  \/ TimerFire
  \/ Rerender
  \/ Advance

Spec == Init /\ [][Next]_vars

----------------------------------------------------------------------------
(* The scheduler with wake-ups delivered on time: the clock runs to the    *)
(* moment the pending timeout is due, or, once in a while, jumps past it.  *)

WakeOnTime ==
  \E t \in timers :
    /\ t.due > DateNow
    /\ \A u \in timers : u.due >= t.due
    /\ Elapse(t.due)

NextOnTime ==
  \/ Start
  \/ Skip
  \/ TimerFire
  \/ Rerender
  \/ WakeOnTime
  \/ Advance

\* the page loads with the stored state
InitOnTime == Init /\ store.config = StoredConfig

SpecOnTime == InitOnTime /\ [][NextOnTime]_vars

----------------------------------------------------------------------------
(* The scheduler left alone: the page has loaded, start() was called, and  *)
(* no user operation follows.  Time passes, and the browser delivers every *)
(* timeout that is due.                                                    *)

InitStarted ==
  \E s \in Rehydrated :
    LET w == Flush([store |-> start(s),
                    engine |-> [completionHandled |-> FALSE,
                                timeoutRef |-> Null, deps |-> depsOf(s)],
                    timers |-> {},
                    sound |-> Silent,
                    obs |-> ObserveOp([NoObs EXCEPT !.cycle = Some(0)],
                                      "start", Null, s)])
    IN  /\ store = w.store
        /\ engine = w.engine
        /\ timers = w.timers
        /\ sound = w.sound
        /\ obs = w.obs

TimePasses == WakeOnTime \/ Advance

NextAlone ==
  \/ TimerFire
  \/ TimePasses

SpecAlone ==
  /\ InitStarted
  /\ [][NextAlone]_vars
  /\ WF_vars(TimerFire)
  /\ WF_vars(TimePasses)

----------------------------------------------------------------------------
(* The page with sound: the host offers audio or not, the media            *)
(* preferences come from storage, and the user drives the timer through    *)
(* the primary button.  The background picker and the ambient volume       *)
(* slider stay where storage left them.                                    *)

\* a task that runs after the component may have unmounted
Background(w) ==
  \E w1 \in {w} :
    \E w2 \in {Flush(w1)} :
      /\ Len(w2.sound.pending) <= MaxPending
      /\ Cardinality(w2.sound.masters) <= MaxMasters
      /\ store' = w2.store
      /\ engine' = w2.engine
      /\ timers' = w2.timers
      /\ sound' = w2.sound
      /\ obs' = Forget(w2.obs, w2.timers)

\* handlePrimaryAction
PrimaryAction ==
  Task(Call(World, [NewCall("prime", "primaryAction")
                      EXCEPT !.status = store.status]))

\* handleTickToggle: the checkbox shows the stored preference
ToggleTick ==
  IF sound.tickEnabled
  THEN Task([stopTicking(World) EXCEPT !.sound.tickEnabled = FALSE])
  ELSE Task(Call(World, NewCall("prime", "tickToggle")))

\* handleAmbientToggle
ToggleAmbient ==
  IF sound.ambientEnabled
  THEN Task([stopAmbient(World) EXCEPT !.sound.ambientEnabled = FALSE])
  ELSE Task(Call(World, NewCall("prime", "ambientToggle")))

\* the Preview button of an alarm tone
PreviewAlarm ==
  \E tone \in AlarmTones :
    /\ isAudioSupported(sound)
    /\ Task(Call(World, [NewCall("playAlarm", "preview")
                           EXCEPT !.tone = tone]))

\* the oldest pending resume() settles: it resolves (the context runs) or
\* it is rejected (only while the context is not running)
ResumeSettles ==
  /\ sound.pending # <<>>
  /\ \E resolved \in BOOLEAN :
       LET call == Head(sound.pending)
           id == Val(call.ctx)
           w0 == [World EXCEPT !.sound.pending = Tail(@)]
           w1 == IF resolved /\ sound.contexts[id] = "suspended"
                 THEN [w0 EXCEPT !.sound.contexts[id] = "running"] ELSE w0
       IN  /\ resolved \/ sound.contexts[id] # "running"
           /\ Background(Continue(w1, call, ensureContextResumed(w1, resolved)))

\* the tick interval's callback
IntervalTick ==
  \E id \in sound.intervals :
    Background(Call(World, [NewCall("playTickPulse", "ticking")
                              EXCEPT !.volume = TickVolume]))

\* the timeout playAlarm set: masterGain.disconnect()
MasterTimeout ==
  \E m \in sound.masters :
    /\ m.due <= DateNow
    /\ Background([World EXCEPT !.sound.masters = @ \ {m},
                                !.obs.disconnected = Append(@, m)])

\* time passes while a timeout is pending and none is overdue
Later ==
  /\ timers # {} \/ sound.masters # {}
  /\ \A t \in timers : t.due > DateNow
  /\ \A m \in sound.masters : m.due > DateNow
  /\ Elapse(SoundDelay)

\* App unmounts: the cleanups of its effects run in the order the effects
\* were declared
Unmount ==
  /\ sound.mounted
  /\ LET w1 == teardown(World)
         w2 == IF shouldTick(Val(w1.sound.tickDeps)) THEN stopTicking(w1)
               ELSE w1
         w3 == IF shouldPlay(Val(w2.sound.ambientDeps)) THEN ambientCleanup(w2)
               ELSE w2
         w4 == IF w3.engine.deps.status = "running"
                  /\ w3.engine.deps.targetEnd # Null
               THEN clearPending(w3) ELSE w3
     IN  Background([w4 EXCEPT !.sound.mounted = FALSE])

\* the media preferences as stored
StoredPreferences ==
  [tickEnabled : BOOLEAN, ambientEnabled : BOOLEAN,
   ambientVolume : {40}, backgroundMode : {"gradient"}]

InitSound ==
  \E host \in Hosts, prefs \in StoredPreferences :
    LET w == Flush([store |-> [initialStore EXCEPT !.config = StoredConfig,
                                                   !.presets = StoredPresets],
                    engine |-> [completionHandled |-> FALSE,
                                timeoutRef |-> Null,
                                deps |-> depsOf(initialStore)],
                    timers |-> {},
                    sound |-> NoSound(host, prefs),
                    obs |-> NoObs])
    IN  /\ store = w.store
        /\ engine = w.engine
        /\ timers = w.timers
        /\ sound = w.sound
        /\ obs = w.obs

NextSound ==
  \/ PrimaryAction
  \/ Skip
  \/ TimerFire
  \/ Later
  \/ ToggleTick
  \/ ToggleAmbient
  \/ PreviewAlarm
  \/ ResumeSettles
  \/ IntervalTick
  \/ MasterTimeout
  \/ Unmount

SpecSound == InitSound /\ [][NextSound]_vars

----------------------------------------------------------------------------
(* The alarms of the page: tick and ambient sound are switched off and     *)
(* stay off; the timer runs, phases complete and tones are previewed.      *)

InitAlarm ==
  /\ InitSound
  /\ ~ sound.tickEnabled
  /\ ~ sound.ambientEnabled

NextAlarm ==
  \/ PrimaryAction
  \/ Skip
  \/ TimerFire
  \/ Later
  \/ PreviewAlarm
  \/ ResumeSettles
  \/ MasterTimeout

SpecAlarm == InitAlarm /\ [][NextAlarm]_vars

----------------------------------------------------------------------------
(* The hook by itself: a client calls the functions useSoundscape returns, *)
(* in any order and without waiting for the promises they return.  App's   *)
(* tick and ambient sound are switched off and its timer is left alone.    *)

HookPrime == Task(Call(World, NewCall("prime", "client")))

\* playAlarm(): the tone is the selected one
HookPlayAlarm ==
  Task(Call(World, [NewCall("playAlarm", "client")
                      EXCEPT !.tone = sound.selectedTone]))

HookStartTicking ==
  Task(Call(World, [NewCall("startTicking", "client")
                      EXCEPT !.volume = TickVolume]))

HookStopTicking ==
  Task(Settled(stopTicking(World), NewCall("stopTicking", "client"), "void",
               Nothing))

HookStartAmbient ==
  \E mode \in AmbientModes, volume \in Volumes :
    Task(Call([World EXCEPT !.obs.stopped = FALSE],
              [NewCall("startAmbient", "client")
                 EXCEPT !.mode = mode, !.volume = volume]))

HookStopAmbient == Task(stopAmbient([World EXCEPT !.obs.stopped = TRUE]))

HookSetAmbientVolume ==
  \E value \in Volumes : Task(setAmbientVolume(World, value))

InitHook ==
  /\ InitSound
  /\ ~ sound.tickEnabled
  /\ ~ sound.ambientEnabled

NextHook ==
  \/ HookPrime
  \/ HookPlayAlarm
  \/ HookStartTicking
  \/ HookStopTicking
  \/ HookStartAmbient
  \/ HookStopAmbient
  \/ HookSetAmbientVolume
  \/ ResumeSettles
  \/ IntervalTick
  \/ MasterTimeout
  \/ Later
  \/ Unmount

SpecHook == InitHook /\ [][NextHook]_vars

----------------------------------------------------------------------------
(* The page with the default config: storage holds no config other than   *)
(* the default one, with or without saved presets.                         *)

InitDefault ==
  /\ store \in {initialStore, [initialStore EXCEPT !.presets = StoredPresets]}
  /\ engine = [completionHandled |-> FALSE, timeoutRef |-> Null,
               deps |-> depsOf(store)]
  /\ timers = {}
  /\ sound = Silent
  /\ obs = NoObs

SpecDefault == InitDefault /\ [][Next]_vars


----------------------------------------------------------------------------
(* Pausing and resuming within a phase: the page has loaded, start() was   *)
(* called, every wake-up is delivered on time, and early in each phase the *)
(* user pauses just before a wake-up is due and resumes, a few times.      *)

\* pauses the user takes in one phase
MaxPauses == 2
\* how far into a phase the user still pauses (ms of published progress)
PauseWindow == 2000

InitPauses ==
  \E s \in Rehydrated :
    LET w == Flush([store |-> start(s),
                    engine |-> [completionHandled |-> FALSE,
                                timeoutRef |-> Null, deps |-> depsOf(s)],
                    timers |-> {},
                    sound |-> Silent,
                    obs |-> ObserveOp([NoObs EXCEPT !.ran = Some(0)],
                                      "start", Null, s)])
    IN  /\ store = w.store
        /\ engine = w.engine
        /\ timers = w.timers
        /\ sound = w.sound
        /\ obs = w.obs

\* the user may still pause in this phase
MayPause ==
  /\ store.status = "running"
  /\ obs.pauses < MaxPauses
  /\ durationForPhase(store.phase, store.config) - store.remainingMs
       <= PauseWindow

\* the clock runs to one millisecond before the pending wake-up is due
AlmostDue ==
  /\ MayPause
  /\ \E t \in timers :
       /\ t.due > DateNow + 1
       /\ \A u \in timers : u.due >= t.due
       /\ Elapse(t.due - 1)

PauseEarly ==
  /\ MayPause
  /\ Task([World EXCEPT
             !.store = pause(store),
             !.obs = [ObserveOp(@, "pause", Null, store)
                        EXCEPT !.pauses = @ + 1]])

ResumePaused ==
  /\ store.status = "paused"
  /\ Resume

NextPauses ==
  \/ WakeOnTime
  \/ AlmostDue
  \/ TimerFire
  \/ PauseEarly
  \/ ResumePaused

SpecPauses == InitPauses /\ [][NextPauses]_vars

----------------------------------------------------------------------------
(* The primary button alone: auto-advance is off, the user presses nothing *)
(* but the primary action button, and phases end by running out.           *)

\* the configs the page loads with here: the default one, or a stored one
\* with auto-advance off
ManualConfigs == {initialConfig, [StoredConfig EXCEPT !.autoStart = FALSE]}

InitPrimary ==
  \E host \in Hosts, config \in ManualConfigs :
    LET prefs == [DefaultPreferences EXCEPT !.ambientEnabled = FALSE]
        w == Flush([store |-> [initialStore EXCEPT !.config = config],
                    engine |-> [completionHandled |-> FALSE,
                                timeoutRef |-> Null,
                                deps |-> depsOf(initialStore)],
                    timers |-> {},
                    sound |-> NoSound(host, prefs),
                    obs |-> NoObs])
    IN  /\ store = w.store
        /\ engine = w.engine
        /\ timers = w.timers
        /\ sound = w.sound
        /\ obs = w.obs

NextPrimary ==
  \/ PrimaryAction
  \/ TimerFire
  \/ Later
  \/ ResumeSettles
  \/ MasterTimeout

SpecPrimary == InitPrimary /\ [][NextPrimary]_vars
----------------------------------------------------------------------------
(* Claims                                                                  *)

\* C1: in every reachable state the deadline (targetEnd) is set if and
\* only if status is Running.
C1_DeadlineIffRunning ==
  (store.targetEnd # Null) <=> (store.status = "running")

\* a countdown that ran for a while, was paused, and holds no deadline
C1_Witness ==
  /\ store.status = "paused"
  /\ store.targetEnd = Null
  /\ store.remainingMs < durationForPhase(store.phase, store.config)

\* C2: for each phase instance (one Running deadline) the scheduler signals
\* completion at most once, each signal followed by completePhase, and the
\* single-fire latch goes back to unset only when a new Running deadline is
\* established.
C2_AtMostOnce ==
  /\ Len(obs.fired) <= 1
  /\ Len(obs.fired) <= Len(obs.completed)
  /\ \A i \in DOMAIN obs.fired : ~ obs.fired[i].again

C2_LatchReset ==
  (engine.completionHandled /\ ~ engine.completionHandled')
    => /\ store'.status = "running"
       /\ store'.targetEnd # Null
       /\ store'.targetEnd # store.targetEnd

C2_SingleCompletion == [] C2_AtMostOnce /\ [][C2_LatchReset]_vars

\* the scheduler signalled a completion and, auto-advancing, the latch is
\* unset again for the next deadline
C2_Witness ==
  /\ Len(obs.fired) = 1
  /\ store.status = "running"
  /\ ~ engine.completionHandled

\* C3: once status has left Running no countdown wake-up is pending; a
\* pending wake-up is always armed for the store's current deadline, so
\* none fires completion or changes the store for an old one; and a
\* wake-up is armed again only by status becoming Running.
C3_NoneStale ==
  /\ store.status # "running" => timers = {}
  /\ \A t \in timers :
        store.targetEnd = Some(t.targetEnd) /\ store.phase = t.phase
  /\ \A i \in DOMAIN obs.fired : obs.fired[i].current

C3_Rearm ==
  (timers = {} /\ timers' # {})
    => store.status # "running" /\ store'.status = "running"

C3_CancelledOnLeave == [] C3_NoneStale /\ [][C3_Rearm]_vars

\* a countdown with a wake-up pending was paused: nothing is pending now
C3_Witness ==
  /\ store.status = "paused"
  /\ timers = {}
  /\ engine.timeoutRef = Null
  /\ store.remainingMs < durationForPhase(store.phase, store.config)
  /\ store.phase = "shortBreak"

\* C4: the scheduler never fires completion before the deadline; a wake-up
\* delivered on time fires it no later than one tick interval after the
\* deadline; and the interval armed is 1000 ms when remaining > 5 min,
\* 500 ms when remaining > 1 min, 250 ms when remaining > 10 s, else 100 ms.
C4_Interval(remaining) ==
  IF remaining > 5 * MINUTE THEN 1000
  ELSE IF remaining > MINUTE THEN 500
  ELSE IF remaining > 10 * 1000 THEN 250
  ELSE 100

C4_NeverEarlyOnTimeWithinTick ==
  /\ \A i \in DOMAIN obs.fired :
        LET f == obs.fired[i]
        IN  /\ f.remaining <= 0
            /\ (f.via.timer /\ f.via.late = 0) => - f.remaining <= f.via.delay
  /\ \A t \in timers : t.delay = C4_Interval(t.targetEnd - (t.due - t.delay))

\* a wake-up delivered on time found the deadline passed and fired
C4_Witness ==
  \E i \in DOMAIN obs.fired :
    /\ obs.fired[i].via.timer
    /\ obs.fired[i].via.late = 0
    /\ obs.fired[i].remaining < 0

\* C5: within one phase, while Running (and across pause and resume), the
\* remainingMs values in the store never increase, and the value shown when
\* completion fires is 0.
C5_ZeroAtCompletion ==
  \A i \in DOMAIN obs.fired : obs.fired[i].shown = 0

C5_Step ==
  \/ /\ store.status = "running"
     /\ store'.status = "running"
     /\ store'.targetEnd = store.targetEnd
  \/ Pause
  \/ Resume

C5_Monotone ==
  [] C5_ZeroAtCompletion
    /\ [][C5_Step => store'.remainingMs <= store.remainingMs]_vars

\* the countdown was published part-way, then ran out and showed 0
C5_Witness ==
  /\ Len(obs.fired) = 1
  /\ obs.fired[1].shown = 0
  /\ obs.fired[1].remaining < 0

\* The completion made in the present task, as it found the store.
Completed == obs.completed[1]

OneCompletion == Len(obs.completed) = 1

\* C6: every phase of every configuration has a positive duration, and
\* completing Focus with count k, k + 1 < sessionsBeforeLongBreak, yields
\* ShortBreak with count k + 1.
C6_FocusToShortBreak ==
  /\ \A P \in Phases : durationForPhase(P, store.config) > 0
  /\ ( /\ OneCompletion
       /\ Completed.phase = "focus"
       /\ Completed.count + 1 < store.config.sessionsBeforeLongBreak )
     => /\ store.phase = "shortBreak"
        /\ store.completedFocusCount = Completed.count + 1

\* the second focus session of a longer cycle was completed
C6_Witness ==
  /\ OneCompletion
  /\ Completed.phase = "focus"
  /\ Completed.count = 1
  /\ Completed.count + 1 < store.config.sessionsBeforeLongBreak
  /\ store.phase = "shortBreak"

\* C7: completing Focus with count k, k + 1 >= sessionsBeforeLongBreak,
\* yields LongBreak with count 0.
C7_FocusToLongBreak ==
  ( /\ OneCompletion
    /\ Completed.phase = "focus"
    /\ Completed.count + 1 >= store.config.sessionsBeforeLongBreak )
  => /\ store.phase = "longBreak"
     /\ store.completedFocusCount = 0

\* the focus session that exactly fills the cycle was completed
C7_Witness ==
  /\ OneCompletion
  /\ Completed.phase = "focus"
  /\ Completed.count >= 1
  /\ Completed.count + 1 = store.config.sessionsBeforeLongBreak
  /\ store.phase = "longBreak"

\* C8: completing a break yields Focus; from LongBreak the count becomes 0,
\* from ShortBreak the count is unchanged.
C8_BreakToFocus ==
  (OneCompletion /\ Completed.phase # "focus")
  => /\ store.phase = "focus"
     /\ Completed.phase = "longBreak" => store.completedFocusCount = 0
     /\ Completed.phase = "shortBreak"
          => store.completedFocusCount = Completed.count

\* a short break taken with sessions on the count was completed
C8_Witness ==
  /\ OneCompletion
  /\ Completed.phase = "shortBreak"
  /\ Completed.count >= 1
  /\ store.phase = "focus"

\* C9: after a completion remainingMs is the new phase's full duration; with
\* autoStart the status is Running and the deadline is now + that duration,
\* otherwise the status is Idle and there is no deadline, whatever the status
\* was before.
C9_AfterCompletion ==
  obs.completed # <<>>
  => LET nextDuration == durationForPhase(store.phase, store.config)
     IN  /\ store.remainingMs = nextDuration
         /\ IF store.config.autoStart
            THEN /\ store.status = "running"
                 /\ store.targetEnd = Some(DateNow + nextDuration)
            ELSE /\ store.status = "idle"
                 /\ store.targetEnd = Null

\* a paused phase was completed and the next one started by itself
C9_Witness ==
  /\ OneCompletion
  /\ Completed.status = "paused"
  /\ store.config.autoStart
  /\ store.status = "running"

\* C10: with autoStart off and the configuration untouched since start(),
\* the first N - 1 focus completions of a cycle lead to ShortBreak, the N-th
\* to LongBreak with count 0 and status Idle, and the cycle then repeats
\* from count 0 (N = sessionsBeforeLongBreak; obs.cycle counts the focus
\* completions of the cycle).
C10_Cycle ==
  (obs.cycle # Null /\ ~ store.config.autoStart)
  => LET k == Val(obs.cycle)
         N == store.config.sessionsBeforeLongBreak
     IN  /\ store.phase = "focus"
              => k < N /\ store.completedFocusCount = k
         /\ store.phase = "shortBreak"
              => 1 <= k /\ k < N /\ store.completedFocusCount = k
         /\ store.phase = "longBreak"
              => k = N /\ store.completedFocusCount = 0
         /\ obs.completed # <<>> => store.status = "idle"

\* the N-th focus session of a cycle of several was just completed
C10_Witness ==
  /\ obs.cycle # Null
  /\ ~ store.config.autoStart
  /\ store.config.sessionsBeforeLongBreak >= 2
  /\ Val(obs.cycle) = store.config.sessionsBeforeLongBreak
  /\ OneCompletion
  /\ store.phase = "longBreak"
  /\ store.status = "idle"

----------------------------------------------------------------------------
(* The store operations, one by one.  In a step whose task called an       *)
(* operation, store is the state the operation found and store' the state  *)
(* after the task.                                                         *)

Called(name) == obs'.op # Null /\ Val(obs'.op).name = name

\* the last task called the operation `name`, finding this status and phase
Did(name, status, phase) ==
  /\ obs.op # Null
  /\ Val(obs.op).name = name
  /\ Val(obs.op).status = status
  /\ Val(obs.op).phase = phase

\* C11: start(), from any state, sets phase Focus, status Running, count 0,
\* remainingMs = the configured focus duration and deadline = now + that
\* duration, and leaves config and presets unchanged.
C11_Start ==
  [][Called("start")
       => LET duration == store.config.focusMinutes * MINUTE
          IN  /\ store'.phase = "focus"
              /\ store'.status = "running"
              /\ store'.completedFocusCount = 0
              /\ store'.remainingMs = duration
              /\ store'.targetEnd = Some(DateNow + duration)
              /\ store'.config = store.config
              /\ store'.presets = store.presets]_vars

\* start() was called on a paused short break
C11_Witness ==
  /\ Did("start", "paused", "shortBreak")
  /\ store.phase = "focus"
  /\ store.status = "running"

\* C12: pause() while Running clears the deadline, sets status Paused and
\* leaves remainingMs (the value last published), phase, count and config
\* as they were; in Idle or Paused it changes nothing.
C12_Pause ==
  [][Called("pause")
       => IF store.status = "running"
          THEN /\ store'.targetEnd = Null
               /\ store'.status = "paused"
               /\ store'.remainingMs = store.remainingMs
               /\ store'.phase = store.phase
               /\ store'.completedFocusCount = store.completedFocusCount
               /\ store'.config = store.config
          ELSE store' = store]_vars

\* pause() was called on a countdown that had been published part-way
C12_Witness ==
  /\ Did("pause", "running", "focus")
  /\ store.status = "paused"
  /\ store.remainingMs < durationForPhase("focus", store.config)

\* C13: resume() while Paused or Idle sets status Running and deadline =
\* now + remainingMs, leaving phase, count, remainingMs and config unchanged.
C13_Resume ==
  [][(Called("resume") /\ store.status \in {"paused", "idle"})
       => /\ store'.status = "running"
          /\ store'.targetEnd = Some(DateNow + store.remainingMs)
          /\ store'.phase = store.phase
          /\ store'.completedFocusCount = store.completedFocusCount
          /\ store'.remainingMs = store.remainingMs
          /\ store'.config = store.config]_vars

\* resume() was called on an idle long break
C13_Witness ==
  /\ Did("resume", "idle", "longBreak")
  /\ store.status = "running"
  /\ store.targetEnd = Some(DateNow + store.remainingMs)

\* C14: pause() while already Paused, and resume() while already Running,
\* leave the whole store state unchanged.
C14_Idempotent ==
  [][( \/ Called("pause") /\ store.status = "paused"
       \/ Called("resume") /\ store.status = "running" )
       => store' = store]_vars

\* resume() was called on a running countdown whose deadline is nearer than
\* the remaining time last published
C14_Witness ==
  /\ Did("resume", "running", "focus")
  /\ store.status = "running"
  /\ Val(store.targetEnd) < DateNow + store.remainingMs

\* C15: reset(), from any state, yields phase Focus, status Idle, the full
\* configured focus duration, count 0 and no deadline, and leaves config,
\* presets and selectedPresetId unchanged.
C15_Reset ==
  [][Called("reset")
       => /\ store'.phase = "focus"
          /\ store'.status = "idle"
          /\ store'.remainingMs = store.config.focusMinutes * MINUTE
          /\ store'.completedFocusCount = 0
          /\ store'.targetEnd = Null
          /\ store'.config = store.config
          /\ store'.presets = store.presets
          /\ store'.selectedPresetId = store.selectedPresetId]_vars

\* reset() was called on a running long break under a non-default config
C15_Witness ==
  /\ Did("reset", "running", "longBreak")
  /\ store.status = "idle"
  /\ store.config.focusMinutes # initialConfig.focusMinutes

\* C16: skip() is equivalent to completePhase(): from every state the store
\* after skip() equals the store after completePhase() on the same state at
\* the same clock value, and conversely.
C16_SkipIsCompletePhase ==
  [][/\ Called("skip") => store' = completePhase(store)
     /\ Called("completePhase") => store' = skip(store)]_vars

\* skip() was called on a paused short break, which it completed
C16_Witness ==
  /\ Did("skip", "paused", "shortBreak")
  /\ OneCompletion
  /\ store.phase = "focus"

\* C17: updateConfig(partial) merges the given fields into config; in Idle
\* it sets remainingMs to the current phase's duration under the new
\* config; in Running or Paused it leaves remainingMs and the deadline
\* alone; it never changes phase, status or count.
C17_UpdateConfig ==
  [][Called("updateConfig")
       => LET partial == Val(Val(obs'.op).arg)
          IN  /\ \A f \in DOMAIN store.config :
                   store'.config[f] = IF f \in DOMAIN partial
                                      THEN partial[f] ELSE store.config[f]
              /\ IF store.status = "idle"
                 THEN store'.remainingMs =
                        durationForPhase(store.phase, store'.config)
                 ELSE /\ store'.remainingMs = store.remainingMs
                      /\ store'.targetEnd = store.targetEnd
              /\ store'.phase = store.phase
              /\ store'.status = store.status
              /\ store'.completedFocusCount = store.completedFocusCount]_vars

\* the focus duration was edited while a focus countdown was running
C17_Witness ==
  /\ Did("updateConfig", "running", "focus")
  /\ "focusMinutes" \in DOMAIN Val(Val(obs.op).arg)
  /\ store.status = "running"
  /\ Val(store.targetEnd) < store.remainingMs
  /\ store.remainingMs < durationForPhase("focus", store.config)

\* C18: loadPreset(id) for an existing preset, from any state, replaces
\* config with the preset's values and resets to phase Focus, status Idle,
\* count 0, no deadline, remainingMs = the preset's focus duration; for an
\* unknown id the state is unchanged.
C18_LoadPreset ==
  [][Called("loadPreset")
       => LET id == Val(Val(obs'.op).arg)
              known == {i \in DOMAIN store.presets : store.presets[i].id = id}
          IN  IF known = {} THEN store' = store
              ELSE \E i \in known :
                     /\ \A f \in DOMAIN store'.config :
                          store'.config[f] = store.presets[i][f]
                     /\ store'.phase = "focus"
                     /\ store'.status = "idle"
                     /\ store'.completedFocusCount = 0
                     /\ store'.targetEnd = Null
                     /\ store'.remainingMs =
                          store.presets[i].focusMinutes * MINUTE]_vars

\* a stored preset was loaded over a running break of another config
C18_Witness ==
  /\ Did("loadPreset", "running", "longBreak")
  /\ store.status = "idle"
  /\ store.selectedPresetId # Null
  /\ store.remainingMs = 5 * MINUTE

\* C19: the session state is created with phase Focus, status Idle, no
\* deadline and remainingMs = the focus duration of the config in effect at
\* creation, also when that config was restored from the persisted store.
C19_CreatedWithFocusDuration ==
  Init => /\ store.phase = "focus"
          /\ store.status = "idle"
          /\ store.targetEnd = Null
          /\ store.remainingMs = durationForPhase("focus", store.config)

\* C20: with autoStart enabled, status Running and no user operation, under
\* fair delivery of timer wake-ups every phase eventually completes and the
\* next phase starts Running, and Focus is entered infinitely often.
C20_NextPhaseRuns(P) ==
  (store.config.autoStart /\ store.status = "running" /\ store.phase = P)
    ~> (store.status = "running" /\ store.phase # P)

C20_FocusEntered ==
  /\ OneCompletion
  /\ store.phase = "focus"
  /\ store.status = "running"

C20_NoTerminalState ==
  /\ \A P \in Phases : C20_NextPhaseRuns(P)
  /\ [](store.config.autoStart => <> C20_FocusEntered)

\* the scheduler, left alone, completed a long break and started Focus again
C20_Witness ==
  /\ Len(obs.fired) = 1
  /\ OneCompletion
  /\ Completed.phase = "longBreak"
  /\ store.phase = "focus"
  /\ store.status = "running"

----------------------------------------------------------------------------
(* The soundscape                                                          *)

\* C21: a repeating tick interval is active only if ticking is enabled,
\* the status is Running and the phase is Focus.
C21_TickOnlyInFocus ==
  sound.intervals # {} =>
    sound.tickEnabled /\ store.status = "running" /\ store.phase = "focus"

\* the calls that settled in the last task
SettledCalls == {obs.calls[i] : i \in 1..Len(obs.calls)}

\* C22: at most one ambient voice graph exists: the connected ambient
\* nodes are those of the graph ambientRef holds, and when startAmbient
\* has built a graph its nodes are the only ones connected (every node of
\* the previous graph, bus included, was disconnected).
C22_OneAmbientGraph ==
  /\ sound.nodes = IF sound.ambientRef = Null THEN {}
                   ELSE GraphNodes(Val(sound.ambientRef))
  /\ \A e \in SettledCalls :
       e.fn = "startAmbient" /\ e.did.created # {} =>
         /\ sound.nodes = e.did.created
         /\ Val(sound.ambientRef).mode = e.mode

\* startAmbient replaced the graph of another mode while another call was
\* still awaiting the context
C22_Witness ==
  /\ sound.pending # <<>>
  /\ \E e \in SettledCalls :
       /\ e.fn = "startAmbient"
       /\ e.did.released # {}
       /\ e.did.created # {}

\* C23: startAmbient called with the mode that is playing creates no node
\* and releases none: the graph is the same before and after, only its
\* gain target becomes the volume passed.
C23_ActiveModeRetargets ==
  [][\A i \in 1..Len(obs'.calls) :
       LET e == obs'.calls[i]
       IN  /\ e.fn = "startAmbient"
           /\ e.result = "true"
           /\ sound.ambientRef # Null
           /\ Val(sound.ambientRef).mode = e.mode
           => /\ e.did.created = {}
              /\ e.did.released = {}
              /\ sound'.nodes = sound.nodes
              /\ sound'.ambientRef =
                   Some([Val(sound.ambientRef) EXCEPT !.target = e.volume])]_vars

\* startAmbient found its mode playing and moved the gain target
C23_Witness ==
  \E e \in SettledCalls :
    /\ e.fn = "startAmbient"
    /\ e.did.retargeted
    /\ Val(sound.ambientRef).mode = e.mode
    /\ Val(sound.ambientRef).target = e.volume
    /\ e.volume = 80

\* C24: at most one tick interval runs and tickIntervalRef holds it; a
\* startTicking that finds a loop leaves it as it is; stopTicking with no
\* loop changes nothing.
C24_OneTickLoop ==
  [][/\ Cardinality(sound'.intervals) <= 1
     /\ sound'.intervals = IF sound'.tickIntervalRef = Null THEN {}
                           ELSE {Val(sound'.tickIntervalRef)}
     /\ \A i \in 1..Len(obs'.calls) :
          LET e == obs'.calls[i]
          IN  /\ e.fn = "startTicking" /\ e.result = "true"
                   /\ sound.tickIntervalRef # Null
                 => /\ sound'.intervals = sound.intervals
                    /\ sound'.tickIntervalRef = sound.tickIntervalRef
              /\ e.fn = "stopTicking" /\ sound.tickIntervalRef = Null
                 => sound' = sound]_vars

\* startTicking returned true on a running loop without pulsing again
C24_Witness ==
  /\ sound.intervals # {}
  /\ \E e \in SettledCalls : e.fn = "startTicking" /\ e.result = "true"
  /\ \A e \in SettledCalls : e.fn # "playTickPulse"

\* C25: at most one audio context is created in a mounted session, none
\* before the first call; every call uses that context, and a call that
\* reports success found it running (resumed if it was suspended).
C25_OneContext ==
  /\ Len(sound.contexts) <= 1
  /\ sound.contextRef # Null =>
       sound.contextRef = Some(1) /\ sound.contexts[1] # "closed"
  /\ sound.mounted /\ sound.contexts # <<>> => sound.contextRef = Some(1)
  /\ \A i \in 1..Len(sound.pending) : sound.pending[i].ctx = Some(1)
  /\ \A e \in SettledCalls :
       e.result \in {"true", "done"} =>
         sound.contexts # <<>> /\ sound.contexts[1] # "suspended"
  /\ InitHook => sound.contexts = <<>>

\* two calls have used the one context, which was created suspended
C25_Witness ==
  /\ sound.host = "suspended"
  /\ sound.contexts = <<"running">>
  /\ sound.masters # {}
  /\ sound.intervals # {}

\* C26: after teardown no tick interval and no connected ambient node
\* remains and the context is closed, also once the calls that were
\* awaiting the context at teardown have settled.
C26_NothingAfterTeardown ==
  ~ sound.mounted =>
    /\ sound.intervals = {}
    /\ sound.tickIntervalRef = Null
    /\ sound.nodes = {}
    /\ sound.ambientRef = Null
    /\ sound.contextRef = Null
    /\ \A i \in 1..Len(sound.contexts) : sound.contexts[i] = "closed"

\* a startTicking or startAmbient call that was awaiting the context at
\* teardown has settled after it
C26_Witness ==
  /\ ~ sound.mounted
  /\ sound.contexts = <<"closed">>
  /\ \E e \in SettledCalls : e.fn \in {"startTicking", "startAmbient"}

\* C27: on a host without audio prime, startTicking and startAmbient
\* return false, playAlarm and playTickPulse return without effect, none
\* raises, and no context, interval, ambient graph or alarm is created.
C27_UnsupportedIsNoop ==
  sound.host = "none" =>
    /\ sound.contexts = <<>>
    /\ sound.contextRef = Null
    /\ sound.intervals = {}
    /\ sound.nodes = {}
    /\ sound.masters = {}
    /\ sound.pending = <<>>
    /\ \A e \in SettledCalls :
         e.result = IF e.fn \in {"prime", "startTicking", "startAmbient"}
                    THEN "false" ELSE "void"

\* startAmbient was called on a host without audio
C27_Witness ==
  /\ sound.host = "none"
  /\ \E e \in SettledCalls : e.fn = "startAmbient" /\ e.result = "false"

\* C28: a rejected creation or resume of the audio context is swallowed at
\* the call site: no call of prime, playAlarm, startTicking or startAmbient
\* rejects without a handler, and nothing is built by a rejected call.
C28_RejectionSwallowed ==
  \A e \in SettledCalls :
    e.result = "rejected" => e.swallowed /\ e.did = Nothing

\* C29: when prime has settled in the primary action after awaiting the
\* context's resume(), rejected or not, the action has called start(),
\* pause() or resume(); when playAlarm fails at a phase completion,
\* completePhase still runs.
C29_SessionSurvivesAudioFailure ==
  \A e \in SettledCalls :
    /\ e.fn = "prime" /\ e.owner = "primaryAction" /\ sound.contexts # <<>>
       => obs.op # Null /\ Val(obs.op).name \in {"start", "pause", "resume"}
    /\ e.fn = "playAlarm" /\ e.owner = "phaseComplete" /\ e.result = "rejected"
       => obs.completed # <<>>

\* the alarm of a phase completion was rejected and the phase completed
C29_AlarmFailedPhaseCompleted ==
  \E e \in SettledCalls :
    /\ e.fn = "playAlarm" /\ e.owner = "phaseComplete"
    /\ e.result = "rejected"
    /\ obs.completed # <<>>

\* C30: a playAlarm with audio available connects a fresh master gain
\* carrying the three tone events of its preset; the gain is disconnected
\* by one timeout, 3500 ms after the call and not before, and every tone
\* of every preset has stopped by then.
C30_AlarmMasterLifetime ==
  /\ \A tone \in AlarmTones :
       /\ Len(tonePresets[tone]) = 3
       /\ \A i \in 1..3 :
            scheduleTone(tonePresets[tone][i]).stopTime < DateNow + MasterLifetime
  /\ \A m \in sound.masters :
       /\ m.due <= DateNow + MasterLifetime
       /\ Cardinality(m.oscillators) = 3
       /\ \A o \in m.oscillators : o.stopTime < m.due
  /\ \A e \in SettledCalls :
       e.fn = "playAlarm" /\ e.result = "done" =>
         \E m \in sound.masters :
           /\ m.tone = e.tone
           /\ m.due = DateNow + MasterLifetime
           /\ m.oscillators = {scheduleTone(tonePresets[e.tone][i]) : i \in 1..3}
  /\ \A i \in 1..Len(obs.disconnected) :
       /\ obs.disconnected[i].due <= DateNow
       /\ obs.disconnected[i] \notin sound.masters
       /\ \A o \in obs.disconnected[i].oscillators : o.stopTime < DateNow

\* an alarm has sounded on a host with audio and its master gain has been
\* disconnected
C30_Witness ==
  /\ obs.disconnected # <<>>
  /\ sound.host \in {"suspended", "running"}
  /\ store.phase # "focus"

----------------------------------------------------------------------------
(* The store and the scheduler, again                                      *)

\* C31: setRemaining changes remainingMs only while the status is Running
\* (called in Idle or Paused it returns the state it was given), and no
\* call the scheduler makes leaves remainingMs above the value it found.
C31_SetRemainingGuarded ==
  /\ store.status # "running" =>
       \A value \in {0, store.remainingMs - 1000, store.remainingMs + 1000} :
         setRemaining(store, value) = store
  /\ \A i \in DOMAIN obs.sets :
       /\ obs.sets[i].status # "running" =>
            obs.sets[i].after = obs.sets[i].before
       /\ obs.sets[i].after <= obs.sets[i].before

\* the scheduler lowered remainingMs through setRemaining part-way through
\* a countdown
C31_Witness ==
  \E i \in DOMAIN obs.sets :
    /\ obs.sets[i].status = "running"
    /\ 0 < obs.sets[i].after
    /\ obs.sets[i].after < obs.sets[i].before

\* C32: on the tick that finds the deadline passed the scheduler first
\* sets the displayed remaining time to 0, then invokes the phase-complete
\* callback (the alarm) with the phase that is completing, while the store
\* still holds that phase, then calls completePhase on it; no wake-up
\* stays armed for that deadline.
C32_CompletionOrder ==
  /\ \A i \in DOMAIN obs.fired :
       /\ obs.fired[i].shown = 0
       /\ obs.fired[i].storePhase = obs.fired[i].phase
       /\ i \in DOMAIN obs.completed
       /\ obs.completed[i].phase = obs.fired[i].phase
       /\ store.phase # obs.fired[i].phase
       /\ \E e \in SettledCalls \cup {sound.pending[j] : j \in DOMAIN sound.pending} :
            e.fn = "playAlarm" /\ e.owner = "phaseComplete"
  /\ obs.signalled = {}

\* a ShortBreak ran out: the callback got shortBreak and the store is in
\* Focus
C32_Witness ==
  /\ Len(obs.fired) = 1
  /\ obs.fired[1].phase = "shortBreak"
  /\ obs.fired[1].storePhase = "shortBreak"
  /\ store.phase = "focus"

\* C33: in every Idle state reached from the default initial state,
\* remainingMs is the full configured duration of the current phase.
C33_IdleHoldsFullDuration ==
  store.status = "idle" =>
    store.remainingMs = durationForPhase(store.phase, store.config)

\* updateConfig has changed the focus length while Idle in Focus
C33_Witness ==
  /\ store.status = "idle"
  /\ store.phase = "focus"
  /\ obs.op # Null
  /\ Val(obs.op).name = "updateConfig"
  /\ store.config.focusMinutes # initialConfig.focusMinutes
  /\ store.remainingMs = store.config.focusMinutes * MINUTE

\* C34: in every reachable state 0 <= completedFocusCount; a step takes
\* completedFocusCount from below config.sessionsBeforeLongBreak to at or
\* above it only when it is an updateConfig that lowers
\* sessionsBeforeLongBreak, and the next completion of a Focus phase
\* brings the count back below it.
C34_CountBoundKeptUnlessLowered ==
  /\ [](0 <= store.completedFocusCount)
  /\ [][(/\ store.completedFocusCount < store.config.sessionsBeforeLongBreak
         /\ ~(store'.completedFocusCount < store'.config.sessionsBeforeLongBreak))
        => /\ obs'.op # Null
           /\ Val(obs'.op).name = "updateConfig"
           /\ store'.config.sessionsBeforeLongBreak
                < store.config.sessionsBeforeLongBreak
           /\ store'.completedFocusCount = store.completedFocusCount]_vars
  /\ [][(/\ store.phase = "focus"
         /\ obs'.completed # <<>>)
        => store'.completedFocusCount < store'.config.sessionsBeforeLongBreak]_vars

\* updateConfig ran in the middle of a cycle and the count is still below
\* sessionsBeforeLongBreak
C34_Witness ==
  /\ obs.op # Null
  /\ Val(obs.op).name = "updateConfig"
  /\ store.completedFocusCount >= 1
  /\ store.completedFocusCount < store.config.sessionsBeforeLongBreak

\* C34 as stated: 0 <= completedFocusCount < sessionsBeforeLongBreak in
\* every reachable state
C34_CountBelowSessions ==
  /\ 0 <= store.completedFocusCount
  /\ store.completedFocusCount < store.config.sessionsBeforeLongBreak

\* C35: while the phase is ShortBreak, completedFocusCount is at least 1;
\* while the phase is LongBreak, completedFocusCount is 0.
C35_BreakCounts ==
  /\ store.phase = "shortBreak" => store.completedFocusCount >= 1
  /\ store.phase = "longBreak" => store.completedFocusCount = 0

\* the second Focus of a two-session cycle has just completed into the
\* LongBreak
C35_Witness ==
  /\ store.phase = "longBreak"
  /\ store.config.sessionsBeforeLongBreak = 2
  /\ obs.completed # <<>>
  /\ obs.completed[1].phase = "focus"
  /\ obs.completed[1].count = 1

\* C36: from the default initial state 0 <= remainingMs in every reachable
\* state, and a step takes remainingMs from within the current phase's
\* configured duration to above it only when it is an updateConfig that
\* shortens that duration while the status is Running or Paused (the
\* countdown under way keeps its remaining time).
C36_RemainingBoundKeptUnlessShortened ==
  /\ [](0 <= store.remainingMs)
  /\ [][(/\ store.remainingMs <= durationForPhase(store.phase, store.config)
         /\ ~(store'.remainingMs
                <= durationForPhase(store'.phase, store'.config)))
        => /\ obs'.op # Null
           /\ Val(obs'.op).name = "updateConfig"
           /\ store.status \in {"running", "paused"}
           /\ store'.status = store.status
           /\ store'.phase = store.phase
           /\ durationForPhase(store'.phase, store'.config)
                < durationForPhase(store.phase, store.config)
           /\ store'.remainingMs = store.remainingMs]_vars

\* updateConfig changed the Focus length under a running Focus countdown
\* and the remaining time is still within it
C36_Witness ==
  /\ obs.op # Null
  /\ Val(obs.op).name = "updateConfig"
  /\ Val(obs.op).status = "running"
  /\ Val(obs.op).phase = "focus"
  /\ store.status = "running"
  /\ store.config.focusMinutes # initialConfig.focusMinutes
  /\ Val(obs.op).arg = Some([focusMinutes |-> store.config.focusMinutes])
  /\ store.remainingMs < durationForPhase(store.phase, store.config)

\* C36 as stated: 0 <= remainingMs <= duration(phase, config) in every
\* reachable state
C36_RemainingWithinDuration ==
  /\ 0 <= store.remainingMs
  /\ store.remainingMs <= durationForPhase(store.phase, store.config)

\* C37: whatever pauses and resumes were taken within a phase, when its
\* completion fires the time spent in Running since the phase began is at
\* least the phase's configured duration and at most one tick interval
\* (the longest the scheduler arms in that phase) more.
C37_RunningTimeWithinTick ==
  \A i \in DOMAIN obs.fired :
    obs.total # Null =>
      LET duration == durationForPhase(obs.fired[i].phase, store.config)
      IN  /\ Val(obs.total) >= duration
          /\ Val(obs.total) <= duration + getTickInterval(duration)

\* the half of C37 that holds: completion never fires before the phase has
\* spent its configured duration in Running
C37_AtLeastDuration ==
  \A i \in DOMAIN obs.fired :
    obs.total # Null =>
      Val(obs.total) >= durationForPhase(obs.fired[i].phase, store.config)

\* a phase in which two pauses were taken has completed
C37_PausedTwiceCompleted ==
  /\ obs.fired # <<>>
  /\ obs.total # Null
  /\ Val(obs.total) > durationForPhase(obs.fired[1].phase, store.config)
                        + getTickInterval(durationForPhase(obs.fired[1].phase, store.config))

\* the phase-complete alarms among the calls p
AlarmsIn(p) ==
  Cardinality({j \in DOMAIN p :
                 p[j].fn = "playAlarm" /\ p[j].owner = "phaseComplete"})

\* C38: a task that calls skip() invokes no phase-complete callback and
\* plays no alarm, whatever the status; a task plays as many phase-complete
\* alarms as it signals completions, at most one, and a completion is
\* signalled only for the current deadline, once, when it has passed.
C38_SkipIsSilent ==
  /\ [][/\ Called("skip") => /\ obs'.fired = <<>>
                             /\ AlarmsIn(obs'.calls) = 0
                             /\ AlarmsIn(sound'.pending) <= AlarmsIn(sound.pending)
        /\ AlarmsIn(sound'.pending) + AlarmsIn(obs'.calls)
             = AlarmsIn(sound.pending) + Len(obs'.fired)]_vars
  /\ [](/\ Len(obs.fired) <= 1
        /\ \A i \in DOMAIN obs.fired :
             /\ obs.fired[i].remaining <= 0
             /\ obs.fired[i].current
             /\ ~ obs.fired[i].again)

\* a running Focus was skipped on a host that plays sound: the store moved
\* on and nothing was signalled
C38_Witness ==
  /\ Did("skip", "running", "focus")
  /\ sound.host = "running"
  /\ store.phase # "focus"
  /\ obs.fired = <<>>
  /\ AlarmsIn(obs.calls) = 0

\* C39: with auto-advance off, pressing only the primary action button and
\* letting phases run out, the status is never Running in a break phase
\* and, with sessionsBeforeLongBreak > 1, the phase is never LongBreak.
C39_BreaksNeverRun ==
  /\ store.phase # "focus" => store.status # "running"
  /\ store.config.sessionsBeforeLongBreak > 1 => store.phase # "longBreak"

\* a ShortBreak reached by running out was left by the primary button:
\* start() put the store back in a running Focus with the count at 0
C39_Witness ==
  /\ Did("start", "idle", "shortBreak")
  /\ store.phase = "focus"
  /\ store.status = "running"
  /\ store.completedFocusCount = 0
  /\ ~ store.config.autoStart

\* C40: once stopAmbient() was the client's last ambient call and every
\* call in flight has settled, no ambient graph is active: ambientRef is
\* empty and no ambient node is connected.
C40_NoAmbientAfterStop ==
  (obs.stopped /\ sound.pending = <<>>)
    => sound.ambientRef = Null /\ sound.nodes = {}

\* in App the property holds: with the ambient preference off and nothing
\* in flight no graph is active (startAmbient is called only once prime()
\* has resolved, and the effect's cleanup cancels a prime() still pending)
C40_DisabledIsSilent ==
  (~ sound.ambientEnabled /\ sound.pending = <<>>)
    => sound.ambientRef = Null /\ sound.nodes = {}

\* stopAmbient() ran while a startAmbient() was awaiting the context, and
\* the graph that call then built is playing
C40_GraphBuiltAfterStop ==
  /\ obs.stopped
  /\ sound.pending = <<>>
  /\ sound.ambientRef # Null
  /\ \E e \in SettledCalls : e.fn = "startAmbient" /\ e.did.created # {}

====
